---------------------------- MODULE Spec2Model ----------------------------
(***************************************************************************)
(* Model of sync_rules.py: one canonical rules document is split into a    *)
(* shared bucket and per-editor buckets by `::only` / `::end` marker lines *)
(* (parse_base_file), every registered editor's text is composed from the  *)
(* shared bucket and its own bucket (build_outputs), and the texts are     *)
(* written or previewed (write_outputs), driven by main.                   *)
(*                                                                         *)
(* Text is modelled as a sequence of one-character strings, so that        *)
(* startswith, split, strip, rstrip and join are computed character by     *)
(* character as Python computes them.                                      *)
(***************************************************************************)
EXTENDS Integers, Sequences, FiniteSets, TLC

\* Longest document (in lines) drawn from LinePool.
MaxLines == 3

(***************************************************************************)
(* Python str primitives                                                   *)
(***************************************************************************)

\* The characters str.strip()/str.rstrip() remove by default, among those
\* the model's alphabet has.
Whitespace == {" ", "\t", "\n", "\r"}

NL == <<"\n">>

\* s.startswith(p)
StartsWith(s, p) == Len(s) >= Len(p) /\ SubSeq(s, 1, Len(p)) = p

\* s.rstrip(chars)
RECURSIVE RStripChars(_, _)
RStripChars(s, chars) ==
    IF s # <<>> /\ s[Len(s)] \in chars
    THEN RStripChars(SubSeq(s, 1, Len(s) - 1), chars)
    ELSE s

\* s.lstrip(chars)
RECURSIVE LStripChars(_, _)
LStripChars(s, chars) ==
    IF s # <<>> /\ s[1] \in chars
    THEN LStripChars(Tail(s), chars)
    ELSE s

\* s.rstrip()
RStrip(s) == RStripChars(s, Whitespace)

\* s.strip()
Strip(s) == LStripChars(RStripChars(s, Whitespace), Whitespace)

\* s.split(sep) for a one-character separator: always at least one piece.
RECURSIVE SplitFrom(_, _, _)
SplitFrom(s, sep, cur) ==
    IF s = <<>> THEN <<cur>>
    ELSE IF s[1] = sep THEN <<cur>> \o SplitFrom(Tail(s), sep, <<>>)
    ELSE SplitFrom(Tail(s), sep, Append(cur, s[1]))

Split(s, sep) == SplitFrom(s, sep, <<>>)

\* sep.join(lines)
RECURSIVE Join(_, _)
Join(lines, sep) ==
    IF lines = <<>> THEN <<>>
    ELSE IF Len(lines) = 1 THEN lines[1]
    ELSE lines[1] \o sep \o Join(Tail(lines), sep)

(***************************************************************************)
(* Literals of the program                                                 *)
(***************************************************************************)

\* ALL = "__ALL__"
ALL == <<"_", "_", "A", "L", "L", "_", "_">>

\* "::only "
OnlyPrefix == <<":", ":", "o", "n", "l", "y", " ">>

\* "::end"
EndPrefix == <<":", ":", "e", "n", "d">>

\* The text the ValueError message puts before the offending line.
NoEditorsMsg == "No editors specified in directive at line: "

\* The text sys.exit prints around the base path when the file is missing.
BaseMissingMsg == "Base file not found."

windsurf == <<"w", "i", "n", "d", "s", "u", "r", "f">>
codex == <<"c", "o", "d", "e", "x">>
cusror == <<"c", "u", "s", "r", "o", "r">>

\* DEFAULT_ALIAS, in insertion order.
DEFAULT_ALIAS ==
    << [editor |-> windsurf, dest |-> ".windsurfrules"],
       [editor |-> codex, dest |-> "AGENTS.md"],
       [editor |-> cusror, dest |-> ".cusrorrules.mdc"] >>

(***************************************************************************)
(* Inputs                                                                  *)
(***************************************************************************)

edX == <<"x">>
edY == <<"y">>

\* Lines a document is drawn from (without their line terminator):
\* content with and without trailing whitespace, a blank line, Open
\* directives (one with padding and an empty piece, one naming the shared
\* key), an Open directive with no identifier, Close directives with and
\* without trailing text, and the marker without its trailing space.
LinePool ==
    { <<"A">>,
      <<"B", " ">>,
      <<>>,
      OnlyPrefix \o <<"x">>,
      OnlyPrefix \o <<" ", "y", " ", ",", ",", "x">>,
      OnlyPrefix \o ALL,
      OnlyPrefix \o <<",", " ">>,
      EndPrefix,
      EndPrefix \o <<" ", "x">>,
      <<":", ":", "o", "n", "l", "y">> }

\* A line as the file iterator yields it: with its terminator.
Raw(l) == l \o NL

\* Example 1 of the documentation: A, ::only x, B, ::end, C.
Example1 ==
    << Raw(<<"A">>), Raw(OnlyPrefix \o <<"x">>), Raw(<<"B">>),
       Raw(EndPrefix), Raw(<<"C">>) >>

\* The documents of the model: every sequence of at most MaxLines pool
\* lines, and Example 1.
Docs ==
    UNION { [1..n -> {Raw(l) : l \in LinePool}] : n \in 0..MaxLines }
        \cup {Example1}

\* The values of parse_map_args(args.maps) the model draws from.
MapChoices ==
    { <<>>,
      << [editor |-> edX, dest |-> "x.md"] >>,
      << [editor |-> edX, dest |-> "x.md"], [editor |-> edY, dest |-> "y.md"] >>,
      << [editor |-> ALL, dest |-> "all.md"] >>,
      << [editor |-> codex, dest |-> "codex.md"], [editor |-> edY, dest |-> "y.md"] >> }

\* d1 | d2 on insertion-ordered dicts: keys of d1 keep their place and take
\* d2's value when d2 has them; d2's new keys follow in d2's order.
Keys(d) == {d[i].editor : i \in DOMAIN d}

Lookup(d, k) == d[CHOOSE i \in DOMAIN d : d[i].editor = k].dest

RECURSIVE NewEntries(_, _)
NewEntries(d1, d2) ==
    IF d2 = <<>> THEN <<>>
    ELSE IF d2[1].editor \in Keys(d1) THEN NewEntries(d1, Tail(d2))
    ELSE <<d2[1]>> \o NewEntries(d1, Tail(d2))

DictMerge(d1, d2) ==
    [i \in DOMAIN d1 |->
        IF d1[i].editor \in Keys(d2)
        THEN [editor |-> d1[i].editor, dest |-> Lookup(d2, d1[i].editor)]
        ELSE d1[i]]
    \o NewEntries(d1, d2)

(***************************************************************************)
(* State                                                                   *)
(***************************************************************************)
VARIABLES
    base_exists,      \* args.base.exists()
    fh,               \* the raw lines the open base file yields
    pos,              \* number of lines the parser's loop has consumed
    buckets,          \* parse_base_file's buckets: identifier -> lines
    current_editors,  \* parse_base_file's current_editors
    editor_aliases,   \* main's editor_aliases, in insertion order
    dry_run,          \* args.dry_run
    outputs,          \* main's outputs: editor -> text; <<>> while unset
    written,          \* the write_text calls so far, in order
    stdout,           \* the print calls so far, in order
    exit_msg,         \* the argument of sys.exit; <<>> while none
    pc                \* where main is

vars == << base_exists, fh, pos, buckets, current_editors, editor_aliases,
           dry_run, outputs, written, stdout, exit_msg, pc >>

(***************************************************************************)
(* parse_base_file                                                         *)
(***************************************************************************)

\* line = raw.rstrip("\n")
LineOf(raw) == RStripChars(raw, {"\n"})

\* line.startswith("::only ")
IsOpen(line) == StartsWith(line, OnlyPrefix)

\* IsClose that takes only the bare marker.
IsClose_Exact(line) == line = EndPrefix

\* line.startswith("::end"), reached only when the line is no Open directive
IsClose(line) == ~IsOpen(line) /\ StartsWith(line, EndPrefix)

\* {e.strip() for e in line[len("::only "):].split(",") if e.strip()}
ParseEditors(line) ==
    LET pieces == Split(SubSeq(line, Len(OnlyPrefix) + 1, Len(line)), <<",">>[1])
    IN  {Strip(pieces[i]) : i \in DOMAIN pieces} \ {<<>>}

\* OpenScope that adds the editors to the active set.
OpenScope_Accumulate(cur, editors) == cur \cup editors

\* current_editors = editors
OpenScope(cur, editors) == editors

\* CloseScope that leaves the active set as it is.
CloseScope_Keep(cur) == cur

\* current_editors = {ALL}
CloseScope(cur) == {ALL}

\* EnsureBuckets that creates nothing.
EnsureBuckets_None(b, editors) == b

\* for ed in editors: buckets.setdefault(ed, [])
EnsureBuckets(b, editors) ==
    [ed \in DOMAIN b \cup editors |-> IF ed \in DOMAIN b THEN b[ed] ELSE <<>>]

\* AppendLine that appends line.rstrip().
AppendLine_Stripped(b, cur, line) ==
    [ed \in DOMAIN b \cup cur |->
        (IF ed \in DOMAIN b THEN b[ed] ELSE <<>>)
            \o (IF ed \in cur THEN <<RStrip(line)>> ELSE <<>>)]

\* AppendLine that skips blank lines.
AppendLine_SkipBlank(b, cur, line) ==
    IF line = <<>> THEN b
    ELSE [ed \in DOMAIN b \cup cur |->
            (IF ed \in DOMAIN b THEN b[ed] ELSE <<>>)
                \o (IF ed \in cur THEN <<line>> ELSE <<>>)]

\* for ed in current_editors: buckets.setdefault(ed, []).append(line)
AppendLine(b, cur, line) ==
    [ed \in DOMAIN b \cup cur |->
        (IF ed \in DOMAIN b THEN b[ed] ELSE <<>>)
            \o (IF ed \in cur THEN <<line>> ELSE <<>>)]

\* The line the loop reads next.
NextLine == LineOf(fh[pos + 1])

\* OpenDirective without its `continue`: the directive line falls through
\* to the append of lines 80-81.
OpenDirective_FallsThrough ==
    /\ pc = "parse" /\ pos < Len(fh)
    /\ IsOpen(NextLine)
    /\ ParseEditors(NextLine) # {}
    /\ current_editors' = ParseEditors(NextLine)
    /\ buckets' = [ed \in DOMAIN buckets \cup ParseEditors(NextLine) |->
                      (IF ed \in DOMAIN buckets THEN buckets[ed] ELSE <<>>)
                          \o (IF ed \in ParseEditors(NextLine)
                              THEN <<NextLine>> ELSE <<>>)]
    /\ pos' = pos + 1
    /\ UNCHANGED << base_exists, fh, editor_aliases, dry_run, outputs,
                    written, stdout, exit_msg, pc >>

\* One iteration of the loop on an Open directive that names an editor.
OpenDirective ==
    /\ pc = "parse" /\ pos < Len(fh)
    /\ IsOpen(NextLine)
    /\ ParseEditors(NextLine) # {}
    /\ current_editors' = OpenScope(current_editors, ParseEditors(NextLine))
    /\ buckets' = EnsureBuckets(buckets, ParseEditors(NextLine))
    /\ pos' = pos + 1
    /\ UNCHANGED << base_exists, fh, editor_aliases, dry_run, outputs,
                    written, stdout, exit_msg, pc >>

\* MalformedDirective that skips the line and goes on.
MalformedDirective_Skip ==
    /\ pc = "parse" /\ pos < Len(fh)
    /\ IsOpen(NextLine)
    /\ ParseEditors(NextLine) = {}
    /\ pos' = pos + 1
    /\ UNCHANGED << base_exists, fh, buckets, current_editors, editor_aliases,
                    dry_run, outputs, written, stdout, exit_msg, pc >>

\* One iteration on an Open directive that names no editor: the ValueError
\* leaves parse_base_file and main turns it into sys.exit(str(e)).
MalformedDirective ==
    /\ pc = "parse" /\ pos < Len(fh)
    /\ IsOpen(NextLine)
    /\ ParseEditors(NextLine) = {}
    /\ exit_msg' = <<NoEditorsMsg, NextLine>>
    /\ pc' = "exit"
    /\ UNCHANGED << base_exists, fh, pos, buckets, current_editors,
                    editor_aliases, dry_run, outputs, written, stdout >>

\* One iteration on a Close directive.
CloseDirective ==
    /\ pc = "parse" /\ pos < Len(fh)
    /\ IsClose(NextLine)
    /\ current_editors' = CloseScope(current_editors)
    /\ pos' = pos + 1
    /\ UNCHANGED << base_exists, fh, buckets, editor_aliases, dry_run, outputs,
                    written, stdout, exit_msg, pc >>

\* One iteration on an ordinary line.
ContentLine ==
    /\ pc = "parse" /\ pos < Len(fh)
    /\ ~IsOpen(NextLine) /\ ~IsClose(NextLine)
    /\ buckets' = AppendLine(buckets, current_editors, NextLine)
    /\ pos' = pos + 1
    /\ UNCHANGED << base_exists, fh, current_editors, editor_aliases, dry_run,
                    outputs, written, stdout, exit_msg, pc >>

(***************************************************************************)
(* build_outputs                                                           *)
(***************************************************************************)

\* buckets.get(key, [])
Get(b, key) == IF key \in DOMAIN b THEN b[key] ELSE <<>>

\* Compose with the editor's own lines put before the shared ones.
Compose_OwnFirst(b, editor) ==
    RStrip(Join(Get(b, editor) \o Get(b, ALL), NL)) \o NL

\* Compose with rstrip("\n") in place of rstrip(): only newlines stripped.
Compose_StripNewlines(b, editor) ==
    RStripChars(Join(Get(b, ALL) \o Get(b, editor), NL), {"\n"}) \o NL

\* "\n".join(common_lines + buckets.get(editor, [])).rstrip() + "\n"
Compose(b, editor) == RStrip(Join(Get(b, ALL) \o Get(b, editor), NL)) \o NL

\* outputs[editor] = text
Assign(outs, editor, text) ==
    [ed \in DOMAIN outs \cup {editor} |-> IF ed = editor THEN text ELSE outs[ed]]

\* The loop of build_outputs over the aliases still to do, from outs on.
RECURSIVE BuildLoop(_, _, _)
BuildLoop(b, aliases, outs) ==
    IF aliases = <<>> THEN outs
    ELSE BuildLoop(b, Tail(aliases),
                   Assign(outs, aliases[1].editor, Compose(b, aliases[1].editor)))

\* The loop with `lines = common_lines; lines += buckets.get(editor, [])`:
\* the shared list itself grows by every editor's lines.
RECURSIVE BuildLoop_Aliased(_, _, _)
BuildLoop_Aliased(b, aliases, outs) ==
    IF aliases = <<>> THEN outs
    ELSE LET grown == [b EXCEPT ![ALL] = @ \o Get(b, aliases[1].editor)]
         IN  BuildLoop_Aliased(grown, Tail(aliases),
                 Assign(outs, aliases[1].editor, RStrip(Join(grown[ALL], NL)) \o NL))

\* build_outputs with the aliased loop.
build_outputs_Aliased(b, aliases) == BuildLoop_Aliased(b, aliases, <<>>)

\* build_outputs(buckets, editor_aliases)
build_outputs(b, aliases) == BuildLoop(b, aliases, <<>>)

(***************************************************************************)
(* write_outputs                                                           *)
(***************************************************************************)

\* The print calls of write_outputs, one per entry of outputs, in the
\* order of outputs.items(), which is the order of editor_aliases.
Printed(outs, aliases, dry) ==
    [i \in DOMAIN aliases |->
        IF dry
        THEN [kind |-> "preview", dest |-> aliases[i].dest,
              editor |-> aliases[i].editor, content |-> outs[aliases[i].editor]]
        ELSE [kind |-> "wrote", dest |-> aliases[i].dest]]

\* Writes that does not look at dry_run.
Writes_Always(outs, aliases, dry) ==
    [i \in DOMAIN aliases |->
        [dest |-> aliases[i].dest, content |-> outs[aliases[i].editor]]]

\* The dest_path.write_text calls of write_outputs, in order.
Writes(outs, aliases, dry) ==
    IF dry THEN <<>>
    ELSE [i \in DOMAIN aliases |->
            [dest |-> aliases[i].dest, content |-> outs[aliases[i].editor]]]

(***************************************************************************)
(* main                                                                    *)
(***************************************************************************)

\* if not args.base.exists(): sys.exit(...)
BaseMissing ==
    /\ pc = "start" /\ ~base_exists
    /\ exit_msg' = <<BaseMissingMsg, <<>>>>
    /\ pc' = "exit"
    /\ UNCHANGED << base_exists, fh, pos, buckets, current_editors,
                    editor_aliases, dry_run, outputs, written, stdout >>

\* parse_base_file is entered: buckets = {ALL: []}, current_editors = {ALL}.
StartParse ==
    /\ pc = "start" /\ base_exists
    /\ buckets' = [k \in {ALL} |-> <<>>]
    /\ current_editors' = {ALL}
    /\ pc' = "parse"
    /\ UNCHANGED << base_exists, fh, pos, editor_aliases, dry_run, outputs,
                    written, stdout, exit_msg >>

\* The loop ends, parse_base_file returns buckets, and main builds outputs.
BuildOutputs ==
    /\ pc = "parse" /\ pos = Len(fh)
    /\ outputs' = build_outputs(buckets, editor_aliases)
    /\ pc' = "write"
    /\ UNCHANGED << base_exists, fh, pos, buckets, current_editors,
                    editor_aliases, dry_run, written, stdout, exit_msg >>

\* write_outputs(outputs, editor_aliases, dry_run=args.dry_run)
WriteOutputs ==
    /\ pc = "write"
    /\ written' = Writes(outputs, editor_aliases, dry_run)
    /\ stdout' = Printed(outputs, editor_aliases, dry_run)
    /\ pc' = "done"
    /\ UNCHANGED << base_exists, fh, pos, buckets, current_editors,
                    editor_aliases, dry_run, outputs, exit_msg >>

\* The state when main has parsed its arguments and merged the aliases.
Init ==
    /\ \E m \in MapChoices : editor_aliases = DictMerge(DEFAULT_ALIAS, m)
    /\ dry_run \in BOOLEAN
    /\ base_exists \in BOOLEAN
    /\ fh \in (IF base_exists THEN Docs ELSE {<<>>})
    /\ pos = 0
    /\ buckets = <<>>
    /\ current_editors = {}
    /\ outputs = <<>>
    /\ written = <<>>
    /\ stdout = <<>>
    /\ exit_msg = <<>>
    /\ pc = "start"

Next ==
    \/ BaseMissing
    \/ StartParse
    \/ OpenDirective
    \/ MalformedDirective
    \/ CloseDirective
    \/ ContentLine
    \/ BuildOutputs
    \/ WriteOutputs

Spec == Init /\ [][Next]_vars

(***************************************************************************)
(* Vocabulary of the properties, stated by position rather than by the     *)
(* recursions above                                                        *)
(***************************************************************************)

\* p is a prefix of s.
HasPrefix(s, p) == Len(s) >= Len(p) /\ \A i \in 1..Len(p) : s[i] = p[i]

\* The document's lines, without their terminators.
DocLines == [i \in DOMAIN fh |-> SubSeq(fh[i], 1, Len(fh[i]) - 1)]

DocIsOpen(i) == HasPrefix(DocLines[i], OnlyPrefix)
DocIsClose(i) == HasPrefix(DocLines[i], EndPrefix)
DocIsContent(i) == ~DocIsOpen(i) /\ ~DocIsClose(i)

Max(S) == CHOOSE m \in S : \A n \in S : n <= m
Min(S) == CHOOSE m \in S : \A n \in S : m <= n

\* s without its leading and trailing whitespace.
Trimmed(s) ==
    LET solid == {i \in DOMAIN s : s[i] \notin Whitespace}
    IN  IF solid = {} THEN <<>> ELSE SubSeq(s, Min(solid), Max(solid))

\* The identifiers an Open directive line names: the non-empty trimmed
\* texts between consecutive commas (or the ends) of what follows the prefix.
NamedIn(line) ==
    LET rest == SubSeq(line, Len(OnlyPrefix) + 1, Len(line))
        n == Len(rest)
    IN  { Trimmed(SubSeq(rest, ab[1], ab[2])) :
            ab \in { c \in (1..n + 1) \X (0..n) :
                       /\ c[2] >= c[1] - 1
                       /\ c[1] = 1 \/ rest[c[1] - 1] = ","
                       /\ c[2] = n \/ rest[c[2] + 1] = ","
                       /\ \A i \in c[1]..c[2] : rest[i] # "," } }
        \ {<<>>}

\* The Open directive lines with no identifier.
DocIsMalformed(i) == DocIsOpen(i) /\ NamedIn(DocLines[i]) = {}

\* Every identifier some Open directive of the document names.
NamedIds == UNION {NamedIn(DocLines[i]) : i \in {j \in DOMAIN fh : DocIsOpen(j)}}

\* The index of the last directive among the first p lines; 0 when none.
LastDirective(p) == Max({0} \cup {i \in 1..p : ~DocIsContent(i)})

\* Length of lines[1..n] with a newline after each.
RECURSIVE LenThrough(_, _)
LenThrough(lines, n) ==
    IF n = 0 THEN 0 ELSE LenThrough(lines, n - 1) + Len(lines[n]) + 1

\* The lines joined by single newlines, character by position.
JoinedText(lines) ==
    IF lines = <<>> THEN <<>>
    ELSE [p \in 1..(LenThrough(lines, Len(lines)) - 1) |->
            LET i == CHOOSE i \in DOMAIN lines :
                        LenThrough(lines, i - 1) < p /\ p <= LenThrough(lines, i)
            IN  IF p = LenThrough(lines, i) THEN "\n"
                ELSE lines[i][p - LenThrough(lines, i - 1)]]

\* t up to its last non-whitespace character, then one newline.
Normalised(t) ==
    SubSeq(t, 1, Max({0} \cup {p \in DOMAIN t : t[p] \notin Whitespace})) \o NL

\* main has an Output record.
Built == pc \in {"write", "done"}

(***************************************************************************)
(* Properties                                                              *)
(***************************************************************************)

\* C1: every registry target T gets the shared bucket's lines followed by
\* T's own bucket's lines (none when T has no bucket), joined by single
\* newlines, with all trailing whitespace stripped and exactly one newline
\* appended.
C1_BuildOutputs ==
    Built =>
        /\ DOMAIN outputs = Keys(editor_aliases)
        /\ \A T \in Keys(editor_aliases) :
              outputs[T] =
                Normalised(JoinedText(
                    buckets[ALL]
                        \o (IF T \in DOMAIN buckets THEN buckets[T] ELSE <<>>)))

\* C1 witness: a run that composed a target with lines of its own after
\* shared lines, a target with no bucket, and stripped trailing whitespace.
C1_Witness ==
    /\ pc = "done"
    /\ edX \in Keys(editor_aliases) /\ edX \in DOMAIN buckets
    /\ buckets[edX] # <<>> /\ buckets[ALL] # <<>>
    /\ windsurf \notin DOMAIN buckets
    /\ Len(outputs[edX]) < Len(JoinedText(buckets[ALL] \o buckets[edX])) + 1

\* C2 as stated: for the document A, ::only x, B, ::end, C and targets x
\* and y, the outputs are x -> "A\nB\nC\n" and y -> "A\nC\n".
C2_AsStated ==
    (Built /\ fh = Example1 /\ {edX, edY} \subseteq Keys(editor_aliases)) =>
        /\ outputs[edX] = <<"A", "\n", "B", "\n", "C", "\n">>
        /\ outputs[edY] = <<"A", "\n", "C", "\n">>

\* C2 amended: for the document A, ::only x, B, ::end, C and targets x and
\* y, the outputs are x -> "A\nC\nB\n" (the shared lines A and C first,
\* then x's own line B) and y -> "A\nC\n".
C2_Example1 ==
    (Built /\ fh = Example1 /\ {edX, edY} \subseteq Keys(editor_aliases)) =>
        /\ outputs[edX] = <<"A", "\n", "C", "\n", "B", "\n">>
        /\ outputs[edY] = <<"A", "\n", "C", "\n">>

\* C2 witness: Example 1 has been parsed and composed for x and y.
C2_Witness ==
    /\ pc = "done" /\ fh = Example1
    /\ {edX, edY} \subseteq Keys(editor_aliases)
    /\ DOMAIN outputs = Keys(editor_aliases)

\* C3 as stated: for a document with no directive line every target's
\* output is the document's lines joined by newline plus one newline.
C3_AsStated ==
    (Built /\ \A i \in DOMAIN fh : DocIsContent(i)) =>
        \A T \in Keys(editor_aliases) :
            outputs[T] = JoinedText(DocLines) \o NL

\* C3 amended: for a document with no directive line every target's output
\* is the document's lines, followed by the document's lines once more when
\* the target's identifier is the shared key __ALL__, joined by newline,
\* with trailing whitespace stripped, plus exactly one newline.
C3_NoDirectives ==
    (Built /\ \A i \in DOMAIN fh : DocIsContent(i)) =>
        \A T \in Keys(editor_aliases) :
            outputs[T] =
                Normalised(JoinedText(
                    DocLines \o (IF T = ALL THEN DocLines ELSE <<>>)))

\* C3 witness: a directive-free document that ends in a blank line and
\* has a blank line before content has been composed.
C3_Witness ==
    /\ pc = "done" /\ Len(fh) = 3
    /\ \A i \in DOMAIN fh : DocIsContent(i)
    /\ DocLines[1] = <<>> /\ DocLines[2] # <<>> /\ DocLines[3] = <<>>

\* C4 as stated: a registry target named in no Open directive gets the
\* composition of the shared bucket alone.
C4_UnmentionedTargets ==
    Built =>
        \A T \in Keys(editor_aliases) \ NamedIds :
            outputs[T] = Normalised(JoinedText(buckets[ALL]))

\* The parser's loop takes line n of the document in this step.
Scans(n) == pc = "parse" /\ pos' = n /\ pos = n - 1

\* Line n lies after an Open directive with no directive in between.
UnderOpen(n) == LastDirective(n - 1) > 0 /\ DocIsOpen(LastDirective(n - 1))

\* The identifiers of the Open directive whose scope line n lies in.
ScopeOf(n) == NamedIn(DocLines[LastDirective(n - 1)])

\* C5 as stated: a content line between an Open directive and the next
\* directive is added to no bucket but those of the editors the directive
\* names, and does not enter the shared content.
C5_OnlyNamedEditors ==
    [][ \A n \in DOMAIN fh :
          (Scans(n) /\ DocIsContent(n) /\ UnderOpen(n)) =>
              /\ \A k \in DOMAIN buckets' \ ScopeOf(n) :
                    k \in DOMAIN buckets /\ buckets'[k] = buckets[k]
              /\ buckets'[ALL] = buckets[ALL] ]_vars

\* C6: after two Open directives with no Close between them, a content
\* line is appended to the buckets of the second directive's identifiers
\* and to no other bucket, so not to those named only by the first.
C6_NotAdditive ==
    [][ \A n \in DOMAIN fh :
          ( /\ Scans(n) /\ DocIsContent(n) /\ UnderOpen(n)
            /\ UnderOpen(LastDirective(n - 1)) ) =>
              \A k \in DOMAIN buckets' :
                  /\ k \in DOMAIN buckets
                  /\ buckets'[k] =
                        IF k \in ScopeOf(n)
                        THEN Append(buckets[k], DocLines[n])
                        ELSE buckets[k] ]_vars

\* C6 witness: after an Open naming x and y and an Open naming only x, a
\* content line has reached x's bucket and not y's.
C6_Witness ==
    /\ pc = "parse" /\ pos = 3
    /\ DocIsOpen(1) /\ DocIsOpen(2) /\ DocIsContent(3)
    /\ edY \in NamedIn(DocLines[1]) \ NamedIn(DocLines[2])
    /\ buckets[edY] = <<>>
    /\ buckets[edX] = <<DocLines[3]>>
    /\ buckets[ALL] = <<>>

\* The first Open directive line with no identifier.
FirstMalformed == Min({i \in DOMAIN fh : DocIsMalformed(i)})

\* C7: when the document has an Open directive with an empty identifier
\* list, the run never gets past the first such line, fails there with an
\* error carrying that line's text, and has no Output record, no written
\* file and no printed output.
C7_MalformedAborts ==
    (base_exists /\ \E i \in DOMAIN fh : DocIsMalformed(i)) =>
        /\ pc \in {"start", "parse", "exit"}
        /\ pos < FirstMalformed
        /\ outputs = <<>> /\ written = <<>> /\ stdout = <<>>
        /\ pc = "exit" =>
              /\ pos = FirstMalformed - 1
              /\ exit_msg = <<NoEditorsMsg, DocLines[FirstMalformed]>>

\* C7 witness: the run failed on a malformed directive after a content
\* line and a valid Open directive had been taken.
C7_Witness ==
    /\ pc = "exit" /\ pos = 2
    /\ DocIsMalformed(3)
    /\ buckets[ALL] # <<>> /\ DOMAIN buckets # {ALL}
    /\ exit_msg = <<NoEditorsMsg, DocLines[3]>>

\* C8: every value of the Output record ends with a newline that no
\* whitespace character precedes, and a target with no shared lines and no
\* lines of its own gets exactly "\n".
C8_OneTrailingNewline ==
    Built =>
        \A T \in DOMAIN outputs :
            LET o == outputs[T]
            IN  /\ Len(o) >= 1 /\ o[Len(o)] = "\n"
                /\ Len(o) >= 2 => o[Len(o) - 1] \notin Whitespace
                /\ ( /\ buckets[ALL] = <<>>
                     /\ T \in DOMAIN buckets => buckets[T] = <<>> ) => o = NL

\* C8 witness: a target whose lines end in a line with trailing whitespace
\* and a blank line, and a target with no line at all, have been composed.
C8_Witness ==
    /\ pc = "done"
    /\ buckets[ALL] = <<>>
    /\ edX \in DOMAIN outputs /\ edX \in DOMAIN buckets
    /\ buckets[edX] = << <<"B", " ">>, <<>> >>
    /\ outputs[edX] = <<"B", "\n">>
    /\ outputs[windsurf] = NL

\* The parser has taken every line of the document.
Parsed == Built \/ (pc = "parse" /\ pos = Len(fh))

\* C9: after parsing, the buckets' keys are the shared key and every
\* identifier named in an Open directive, and a document with no directive
\* yields the shared bucket alone, holding every line.
C9_BucketKeys ==
    Parsed =>
        /\ DOMAIN buckets = {ALL} \cup NamedIds
        /\ (\A i \in DOMAIN fh : DocIsContent(i)) =>
              buckets = [k \in {ALL} |-> DocLines]

\* C9 witness: a parsed document named y in an Open directive and gave it
\* no line.
C9_Witness ==
    /\ Parsed
    /\ edY \in NamedIds /\ edY \in DOMAIN buckets /\ buckets[edY] = <<>>
    /\ buckets[ALL] # <<>>

\* C10: a line beginning with ::end sets the active set to {__ALL__} and
\* changes no bucket; met while the active set is {__ALL__} it changes
\* neither; and the content line after it goes to the shared bucket alone.
C10_Close ==
    [][ \A n \in DOMAIN fh :
          /\ (Scans(n) /\ DocIsClose(n)) =>
                /\ current_editors' = {ALL}
                /\ buckets' = buckets
                /\ current_editors = {ALL} =>
                      UNCHANGED << buckets, current_editors >>
          /\ (Scans(n) /\ n > 1 /\ DocIsClose(n - 1) /\ DocIsContent(n)) =>
                buckets' = [buckets EXCEPT ![ALL] = Append(@, DocLines[n])]
      ]_vars

\* C10 witness: a Close directive with trailing text ended the scope of an
\* Open directive, and the line after it went to the shared bucket alone.
C10_Witness ==
    /\ pc = "parse" /\ pos = 3
    /\ DocIsOpen(1)
    /\ DocIsClose(2) /\ Len(DocLines[2]) > Len(EndPrefix)
    /\ DocIsContent(3)
    /\ buckets[ALL] = <<DocLines[3]>>
    /\ \A k \in DOMAIN buckets \ {ALL} : buckets[k] = <<>>
    /\ current_editors = {ALL}

\* The orders in which n targets can be processed.
Orders ==
    [n \in 0..5 |-> {f \in [1..n -> 1..n] : \A i, j \in 1..n : f[i] = f[j] => i = j}]

\* build_outputs is called in this step.
Builds == pc = "parse" /\ pc' = "write"

\* C11: composing the outputs modifies no bucket; a target's text is the
\* same when every bucket but the shared one and its own is taken away;
\* and every order of processing the targets gives the same Output record.
C11_TargetsIndependent ==
    [][ Builds =>
          /\ buckets' = buckets
          /\ \A i \in DOMAIN editor_aliases :
                LET T == editor_aliases[i].editor
                    own == [k \in DOMAIN buckets \cap {ALL, T} |-> buckets[k]]
                IN  build_outputs(own, <<editor_aliases[i]>>)[T] = outputs'[T]
          /\ \A order \in Orders[Len(editor_aliases)] :
                build_outputs(buckets,
                    [i \in DOMAIN order |-> editor_aliases[order[i]]]) = outputs'
      ]_vars

\* C11 witness: outputs were composed for two targets with buckets of
\* their own, one with lines and one without, and differ.
C11_Witness ==
    /\ pc = "write"
    /\ {edX, edY} \subseteq Keys(editor_aliases) \cap DOMAIN buckets
    /\ buckets[edX] # <<>> /\ buckets[edY] = <<>>
    /\ outputs[edX] # outputs[edY]

\* C12: a dry run writes no file and prints every target's output; a run
\* that is not dry writes each target's content to the destination the
\* registry gives for it, one write per entry of the Output record.
C12_WritesOnlyWhenNotDry ==
    pc = "done" =>
        /\ Len(stdout) = Cardinality(DOMAIN outputs)
        /\ dry_run =>
              /\ written = <<>>
              /\ \A T \in DOMAIN outputs :
                    \E i \in DOMAIN stdout :
                        /\ stdout[i].kind = "preview"
                        /\ stdout[i].editor = T
                        /\ stdout[i].content = outputs[T]
        /\ ~dry_run =>
              /\ Len(written) = Cardinality(DOMAIN outputs)
              /\ \A T \in DOMAIN outputs :
                    \E i \in DOMAIN written, j \in DOMAIN editor_aliases :
                        /\ editor_aliases[j].editor = T
                        /\ written[i].dest = editor_aliases[j].dest
                        /\ written[i].content = outputs[T]

\* C12 witness: a run that is not dry wrote codex's text to the
\* destination that --map gave in place of the default one.
C12_Witness ==
    /\ pc = "done" /\ ~dry_run
    /\ buckets[ALL] # <<>>
    /\ \E i \in DOMAIN written :
          written[i] = [dest |-> "codex.md", content |-> outputs[codex]]
    /\ \A i \in DOMAIN written : written[i].dest # "AGENTS.md"

\* The parser exists: parse_base_file has been entered.
Scanning == pc \in {"parse", "write", "done"} \/ (pc = "exit" /\ base_exists)

\* C13: the active tag set is never empty; it is {__ALL__} when no
\* directive has been seen or the last one seen was a Close, and exactly
\* the identifier set of the last directive seen when that was an Open.
C13_ActiveSet ==
    Scanning =>
        /\ current_editors # {}
        /\ current_editors =
              IF LastDirective(pos) > 0 /\ DocIsOpen(LastDirective(pos))
              THEN NamedIn(DocLines[LastDirective(pos)])
              ELSE {ALL}

\* C13 witness: after an Open naming x and y and a Close, an Open naming x
\* alone is the last directive seen.
C13_Witness ==
    /\ pc = "parse" /\ pos = 3
    /\ DocIsOpen(1) /\ edY \in NamedIn(DocLines[1])
    /\ DocIsClose(2)
    /\ DocIsOpen(3)
    /\ current_editors = {edX}

\* C14: processing a content line appends that line, unchanged, to the
\* bucket of every identifier in the active tag set and leaves the other
\* buckets and the active tag set unchanged.
C14_ContentLine ==
    [][ \A n \in DOMAIN fh :
          (Scans(n) /\ DocIsContent(n)) =>
              /\ current_editors' = current_editors
              /\ DOMAIN buckets' = DOMAIN buckets
              /\ \A k \in DOMAIN buckets :
                    buckets'[k] =
                        IF k \in current_editors
                        THEN Append(buckets[k], DocLines[n])
                        ELSE buckets[k] ]_vars

\* C14 witness: a line with trailing whitespace went, as it is, to the
\* buckets of x and y and not to the shared bucket, which holds a line.
C14_Witness ==
    /\ pc = "parse" /\ pos = 3
    /\ DocIsContent(1) /\ DocIsOpen(2) /\ DocIsContent(3)
    /\ DocLines[3] = <<"B", " ">>
    /\ current_editors = {edX, edY}
    /\ buckets[edX] = <<DocLines[3]>> /\ buckets[edY] = <<DocLines[3]>>
    /\ buckets[ALL] = <<DocLines[1]>>

\* The lines of the document at the indices of S, in document order.
RECURSIVE LinesAt(_)
LinesAt(S) ==
    IF S = {} THEN <<>> ELSE LinesAt(S \ {Max(S)}) \o <<DocLines[Max(S)]>>

\* A line of text t starts at position p and begins with prefix.
LineStartsWith(t, p, prefix) ==
    /\ p = 1 \/ t[p - 1] = "\n"
    /\ p + Len(prefix) - 1 <= Len(t)
    /\ \A i \in 1..Len(prefix) : t[p + i - 1] = prefix[i]

\* C15: after any prefix of the document every bucket holds the lines of
\* some set of scanned content lines in document order, no bucket holds an
\* Open or Close directive line, and no line of a composed output is one.
C15_Subsequence ==
    /\ Scanning =>
          \A k \in DOMAIN buckets :
              /\ \E S \in SUBSET {i \in 1..pos : DocIsContent(i)} :
                    buckets[k] = LinesAt(S)
              /\ \A j \in DOMAIN buckets[k] :
                    /\ ~HasPrefix(buckets[k][j], OnlyPrefix)
                    /\ ~HasPrefix(buckets[k][j], EndPrefix)
    /\ Built =>
          \A T \in DOMAIN outputs :
              \A p \in DOMAIN outputs[T] :
                  /\ ~LineStartsWith(outputs[T], p, OnlyPrefix)
                  /\ ~LineStartsWith(outputs[T], p, EndPrefix)

\* C15 witness: the shared bucket holds the first and third lines of a
\* document whose second line is a directive, and outputs were composed.
C15_Witness ==
    /\ pc = "done" /\ pos = 3
    /\ DocIsContent(1) /\ ~DocIsContent(2) /\ DocIsContent(3)
    /\ DocLines[1] # DocLines[3]
    /\ buckets[ALL] = <<DocLines[1], DocLines[3]>>

=============================================================================
